---- MODULE Spec2Model ----
(***************************************************************************)
(* A model of the YouTube transcript service: the identifier parser, the   *)
(* metadata client, the transcript source adapter, the input expander and  *)
(* the bulk archive assembler.                                             *)
(*                                                                         *)
(* Python strings are sequences of one-character strings, so that the      *)
(* regular expressions, strip(), replace(), slicing and f-string           *)
(* formatting of the source are computed character by character.           *)
(***************************************************************************)
EXTENDS Integers, Sequences, FiniteSets, TLC

VARIABLES
    pv_url, pv_result,
    ft_env, ft_api, ft_oembed, ft_result,
    tr_language, tr_timestamps, tr_provider, tr_result,
    pl_env, pl_limit, pl_pc, pl_data, pl_results, pl_served,
    ex_pc, ex_urls, ex_playlist_url, ex_channel_url, ex_limit, ex_env,
    ex_out, ex_seen, ex_errors, ex_playlist_vids, ex_channel_vids,
    bk_pc, bk_video_ids, bk_expansion_errors, bk_language, bk_timestamps,
    bk_i, bk_used_names, bk_errors, bk_zip, bk_calls, bk_response,
    nt_segments, nt_timestamps, nt_result

parseVars == <<pv_url, pv_result>>

titleVars == <<ft_env, ft_api, ft_oembed, ft_result>>

transcriptVars == <<tr_language, tr_timestamps, tr_provider, tr_result>>

playlistVars == <<pl_env, pl_limit, pl_pc, pl_data, pl_results, pl_served>>

expandArgs == <<ex_urls, ex_playlist_url, ex_channel_url, ex_limit, ex_env>>

expandVars ==
    <<ex_pc, expandArgs, ex_out, ex_seen, ex_errors, ex_playlist_vids, ex_channel_vids>>

bulkArgs == <<bk_video_ids, bk_expansion_errors, bk_language, bk_timestamps>>

bulkVars ==
    <<bk_pc, bulkArgs, bk_i, bk_used_names, bk_errors, bk_zip, bk_calls, bk_response>>

normalizeVars == <<nt_segments, nt_timestamps, nt_result>>

vars ==
    <<parseVars, titleVars, transcriptVars, playlistVars, expandVars, bulkVars,
      normalizeVars>>

-----------------------------------------------------------------------------
(* Python values                                                           *)

\* None (also standing for any value that is not a str): no string, since
\* every element of a string is a single character.
PyNone == <<"None">>

isinstance_str(x) == x # PyNone

\* The result of a call that has not been made yet.
Pending == [kind |-> "pending"]

Return(v) == [kind |-> "return", val |-> v]

Raise(cls, m) == [kind |-> "raise", exc |-> cls, msg |-> m]

\* f"{x}" of a str or of None.
format(x) ==
    \* str(None), as an f-string formats it.
    LET NoneText == <<"N","o","n","e">>
    IN  IF isinstance_str(x) THEN x ELSE NoneText

\* The characters str.strip() removes (the ASCII white space).
Whitespace == {" ", "\t", "\n", "\r", "\f"}

RECURSIVE lstrip(_)
lstrip(s) ==
    IF s # <<>> /\ Head(s) \in Whitespace THEN lstrip(Tail(s)) ELSE s

RECURSIVE rstrip(_)
rstrip(s) ==
    IF s # <<>> /\ s[Len(s)] \in Whitespace
    THEN rstrip(SubSeq(s, 1, Len(s) - 1))
    ELSE s

strip(s) == rstrip(lstrip(s))

-----------------------------------------------------------------------------
(* Regular expressions of services.py                                      *)

\* The character class [0-9A-Za-z_-].
IdChars ==
    LET Digits == {"0","1","2","3","4","5","6","7","8","9"}
        Upper == {"A","B","C","D","E","F","G","H","I","J","K","L","M","N","O","P","Q",
                  "R","S","T","U","V","W","X","Y","Z"}
        Lower == {"a","b","c","d","e","f","g","h","i","j","k","l","m","n","o","p","q",
                  "r","s","t","u","v","w","x","y","z"}
    IN  Digits \cup Upper \cup Lower \cup {"_", "-"}

\* The repetition count of ([0-9A-Za-z_-]{11}).
VideoIdLen == 11

\* A pattern is a sequence of alternatives, each a sequence of character
\* sets that must precede the captured group, the anchors ^ and $, and the
\* group: fixed leading characters, then a run of characters of one class,
\* of exactly `count` characters or, with count = 0, as long as it gets (+).
Alt(prefix) == prefix

Group(lead, cls, count) == [lead |-> lead, cls |-> cls, count |-> count]

Pattern(alts, group, bol, eol) ==
    [alts |-> alts, group |-> group, bol |-> bol, eol |-> eol]

IdGroup == Group(<<>>, IdChars, VideoIdLen)

\* The regular expressions of parse_video_id, by their place in the list.
Pat(k) ==
    CASE k = 1 -> Pattern(<<Alt(<<{"?", "&"}, {"v"}, {"="}>>), Alt(<<{"v"}, {"="}>>)>>,
                          IdGroup, FALSE, FALSE)
      [] k = 2 -> Pattern(<<Alt(<<{"b"}, {"e"}, {"/"}>>)>>, IdGroup, FALSE, FALSE)
      [] k = 3 -> Pattern(<<Alt(<<{"e"}, {"m"}, {"b"}, {"e"}, {"d"}, {"/"}>>)>>,
                          IdGroup, FALSE, FALSE)
      [] k = 4 -> Pattern(<<Alt(<<{"s"}, {"h"}, {"o"}, {"r"}, {"t"}, {"s"}, {"/"}>>)>>,
                          IdGroup, FALSE, FALSE)
      [] k = 5 -> Pattern(<<Alt(<<>>)>>, IdGroup, TRUE, TRUE)

\* The list `patterns` of parse_video_id, in its order.
patterns_swapped == <<Pat(2), Pat(1), Pat(3), Pat(4), Pat(5)>>

patterns == <<Pat(1), Pat(2), Pat(3), Pat(4), Pat(5)>>

\* The length of the run of characters of cls that starts at position j.
RECURSIVE RunLen(_, _, _)
RunLen(s, j, cls) ==
    IF j <= Len(s) /\ s[j] \in cls THEN 1 + RunLen(s, j + 1, cls) ELSE 0

\* One alternative tried at position i: the captured group, or PyNone.
MatchAltAt(alt, pat, s, i) ==
    \* $ matches at the end of the string and before a newline that ends it.
    LET AtEol(str, j) ==
            \/ j = Len(str) + 1
            \/ j = Len(str) /\ str[j] = "\n"
        g == i + Len(alt)
        r == g + Len(pat.group.lead)
        run == RunLen(s, r, pat.group.cls)
        n == IF pat.group.count = 0 THEN run ELSE pat.group.count
    IN IF /\ r - 1 <= Len(s)
          /\ \A k \in 1..Len(alt) : s[i + k - 1] \in alt[k]
          /\ \A k \in 1..Len(pat.group.lead) : s[g + k - 1] \in pat.group.lead[k]
          /\ run >= n /\ n >= 1
          /\ (pat.eol => AtEol(s, r + n))
       THEN SubSeq(s, g, r + n - 1)
       ELSE PyNone

\* The alternatives of a pattern tried in order at position i.
RECURSIVE MatchAt(_, _, _, _)
MatchAt(alts, pat, s, i) ==
    IF alts = <<>> THEN PyNone
    ELSE LET m == MatchAltAt(Head(alts), pat, s, i) IN
         IF m # PyNone THEN m ELSE MatchAt(Tail(alts), pat, s, i)

\* re.search: the match at the leftmost position that has one.
RECURSIVE SearchFrom(_, _, _)
SearchFrom(pat, s, i) ==
    IF i > Len(s) + 1 THEN PyNone
    ELSE LET m == MatchAt(pat.alts, pat, s, i) IN
         IF m # PyNone THEN m
         ELSE IF pat.bol THEN PyNone
         ELSE SearchFrom(pat, s, i + 1)

re_search(pat, s) == SearchFrom(pat, s, 1)

-----------------------------------------------------------------------------
(* parse_video_id                                                          *)

MsgNonEmpty ==
    <<"U","R","L"," ","m","u","s","t"," ","b","e"," ","a"," ","n","o","n","-",
      "e","m","p","t","y"," ","s","t","r","i","n","g">>

MsgCouldNotExtract ==
    <<"C","o","u","l","d"," ","n","o","t"," ","e","x","t","r","a","c","t"," ",
      "a"," ","v","a","l","i","d"," ","Y","o","u","T","u","b","e"," ","v","i",
      "d","e","o"," ","I","D"," ","f","r","o","m",":"," ">>

\* The loop over the patterns: the group of the first pattern that matches.
RECURSIVE FirstMatch(_, _)
FirstMatch(pats, s) ==
    IF pats = <<>> THEN PyNone
    ELSE LET m == re_search(Head(pats), s) IN
         IF m # PyNone THEN m ELSE FirstMatch(Tail(pats), s)

parse_video_id(url) ==
    IF ~isinstance_str(url) \/ strip(url) = <<>>
    THEN Raise("ValueError", MsgNonEmpty)
    ELSE LET u == strip(url)
             m == FirstMatch(patterns, u)
         IN IF m # PyNone
            THEN Return(m)
            ELSE Raise("ValueError", MsgCouldNotExtract \o u)

-----------------------------------------------------------------------------
(* parse_playlist_id, parse_channel_id, parse_channel_handle               *)

ChannelIdLen == 22

parse_playlist_id(url) ==
    \* [?&]list=([0-9A-Za-z_-]+)
    LET PatList ==
            Pattern(<<Alt(<<{"?", "&"}, {"l"}, {"i"}, {"s"}, {"t"}, {"="}>>)>>,
                    Group(<<>>, IdChars, 0), FALSE, FALSE)
    IN
    IF ~isinstance_str(url) THEN PyNone ELSE re_search(PatList, url)

parse_channel_id(url) ==
    \* /channel/(UC[0-9A-Za-z_-]{22})
    LET PatChannel ==
            Pattern(<<Alt(<<{"/"}, {"c"}, {"h"}, {"a"}, {"n"}, {"n"}, {"e"}, {"l"}, {"/"}>>)>>,
                    Group(<<{"U"}, {"C"}>>, IdChars, ChannelIdLen), FALSE, FALSE)
    IN
    IF ~isinstance_str(url) THEN PyNone ELSE re_search(PatChannel, url)

parse_channel_handle(url) ==
    \* /@([A-Za-z0-9._-]+)
    LET PatHandle ==
            Pattern(<<Alt(<<{"/"}, {"@"}>>)>>,
                    Group(<<>>, IdChars \cup {"."}, 0), FALSE, FALSE)
    IN
    IF ~isinstance_str(url) THEN PyNone ELSE re_search(PatHandle, url)

-----------------------------------------------------------------------------
(* JSON documents as Python holds them after r.json()                      *)

JNull == [t |-> "null"]

JStr(s) == [t |-> "str", s |-> s]

JNum(n) == [t |-> "num", n |-> n]

JList(xs) == [t |-> "list", l |-> xs]

\* A dict is its sequence of <<key, value>> pairs.
JDict(kvs) == [t |-> "dict", d |-> kvs]

\* bool(x).
Truthy(j) ==
    CASE j.t = "null" -> FALSE
      [] j.t = "num" -> j.n # 0
      [] j.t = "str" -> j.s # <<>>
      [] j.t = "list" -> j.l # <<>>
      [] j.t = "dict" -> j.d # <<>>

\* str() of the AttributeError of x.name on a value without that attribute.
NoAttribute(j, name) ==
    \* type(x).__name__ of a JSON value.
    LET PyTypeName(x) ==
            CASE x.t = "null" -> <<"N","o","n","e","T","y","p","e">>
              [] x.t = "num" -> <<"i","n","t">>
              [] x.t = "str" -> <<"s","t","r">>
              [] x.t = "list" -> <<"l","i","s","t">>
              [] x.t = "dict" -> <<"d","i","c","t">>
    IN
    <<"'">> \o PyTypeName(j) \o
    <<"'"," ","o","b","j","e","c","t"," ","h","a","s"," ","n","o"," ","a","t",
      "t","r","i","b","u","t","e"," ","'">>
    \o name \o <<"'">>

HasKey(j, k) == \E i \in 1..Len(j.d) : j.d[i][1] = k

Lookup(j, k) == j.d[CHOOSE i \in 1..Len(j.d) : j.d[i][1] = k][2]

\* x.get(k): only a dict has the method.
Get(j, k) ==
    IF j.t # "dict" THEN Raise("AttributeError", NoAttribute(j, <<"g","e","t">>))
    ELSE IF HasKey(j, k) THEN Return(Lookup(j, k))
    ELSE Return(JNull)

\* x[k] with a string key.
SubKey(j, k) ==
    IF j.t = "dict"
    THEN IF HasKey(j, k) THEN Return(Lookup(j, k)) ELSE Raise("KeyError", <<>>)
    ELSE Raise("TypeError", <<>>)

\* x[n] with an index n >= 0.
SubIdx(j, n) ==
    CASE j.t = "list" ->
            IF n < Len(j.l) THEN Return(j.l[n + 1]) ELSE Raise("IndexError", <<>>)
      [] j.t = "str" ->
            IF n < Len(j.s) THEN Return(JStr(<<j.s[n + 1]>>))
            ELSE Raise("IndexError", <<>>)
      [] j.t = "dict" -> Raise("KeyError", <<>>)
      [] OTHER -> Raise("TypeError", <<>>)

\* (x or "").strip() or None
StripOrNone(j) ==
    LET x == IF Truthy(j) THEN j ELSE JStr(<<>>) IN
    IF x.t # "str" THEN Raise("AttributeError", NoAttribute(x, <<"s","t","r","i","p">>))
    ELSE IF strip(x.s) # <<>> THEN Return(strip(x.s))
    ELSE Return(PyNone)

-----------------------------------------------------------------------------
(* The environment and the HTTP calls                                      *)

\* os.getenv of the two variable names: a string, or PyNone when unset.
Env(a, b) == [YOUTUBE_API_KEY |-> a, YT_API_KEY |-> b]

\* `x or y` of two getenv results.
_api_key(env) ==
    IF env.YOUTUBE_API_KEY # PyNone /\ env.YOUTUBE_API_KEY # <<>>
    THEN env.YOUTUBE_API_KEY
    ELSE env.YT_API_KEY

\* `if key` / `if not key`.
HasKeyConfigured(env) == _api_key(env) # PyNone /\ _api_key(env) # <<>>

\* What requests.get does: it raises RequestException, or answers with a
\* status and a JSON body.
HttpError == [net |-> "RequestException", status |-> 0, body |-> JNull]

HttpOk(status, body) == [net |-> "ok", status |-> status, body |-> body]

\* _yt_api_get: the body of a 200 answer, None in every other case.
_yt_api_get(env, resp) ==
    IF ~HasKeyConfigured(env) THEN JNull
    ELSE IF resp.net # "ok" THEN JNull
    ELSE IF resp.status = 200 THEN resp.body
    ELSE JNull

-----------------------------------------------------------------------------
(* fetch_video_title                                                       *)

\* data["items"][0]["snippet"]["title"], then the stripping, inside the try.
ApiTitle(data) ==
    LET a == SubKey(data, "items")
        b == IF a.kind = "raise" THEN a ELSE SubIdx(a.val, 0)
        c == IF b.kind = "raise" THEN b ELSE SubKey(b.val, "snippet")
        d == IF c.kind = "raise" THEN c ELSE SubKey(c.val, "title")
    IN IF d.kind = "raise" THEN d ELSE StripOrNone(d.val)

\* The oEmbed request and what is made of its answer.
OembedTitle(resp) ==
    IF resp.net # "ok" THEN Return(PyNone)
    ELSE IF resp.status # 200 THEN Return(PyNone)
    ELSE LET g == Get(resp.body, "title") IN
         IF g.kind = "raise" THEN g ELSE StripOrNone(g.val)

fetch_video_title(env, api, oembed) ==
    IF HasKeyConfigured(env)
    THEN LET data == _yt_api_get(env, api) IN
         IF ~Truthy(data) THEN OembedTitle(oembed)
         ELSE LET items == Get(data, "items") IN
              IF items.kind = "raise" THEN items
              ELSE IF ~Truthy(items.val) THEN OembedTitle(oembed)
              ELSE IF ApiTitle(data).kind = "return" THEN ApiTitle(data)
              ELSE OembedTitle(oembed)
    ELSE OembedTitle(oembed)

-----------------------------------------------------------------------------
(* normalize_transcript                                                    *)

\* str(n) of an integer n >= 0.
RECURSIVE IntToStr(_)
IntToStr(n) ==
    LET DigitChar(d) == <<"0","1","2","3","4","5","6","7","8","9">>[d + 1]
    IN
    IF n < 10 THEN <<DigitChar(n)>>
    ELSE IntToStr(n \div 10) \o <<DigitChar(n % 10)>>

Format02d_unpadded(n) == IntToStr(n)

\* f"{n:02d}".
Format02d(n) ==
    IF n < 0 THEN <<"-">> \o IntToStr(-n)
    ELSE IF n < 10 THEN <<"0">> \o IntToStr(n)
    ELSE IntToStr(n)

\* sep.join(lines).
RECURSIVE Join(_, _)
Join(sep, lines) ==
    IF lines = <<>> THEN <<>>
    ELSE IF Len(lines) = 1 THEN lines[1]
    ELSE lines[1] \o sep \o Join(sep, Tail(lines))

\* A segment is [text, start]: the text a string or PyNone (absent, null),
\* the start time <<ms>> in milliseconds or <<>> (absent, null).
Segment(text, start) == [text |-> text, start |-> start]

MsPerSecond == 1000

\* The line a segment contributes, <<>> standing for `continue`.
SegmentLine(seg, include_timestamps) ==
    LET text == strip(IF seg.text = PyNone THEN <<>> ELSE seg.text)
        start_ms == IF seg.start = <<>> THEN 0 ELSE seg.start[1]
        minutes == start_ms \div (60 * MsPerSecond)
        seconds == (start_ms % (60 * MsPerSecond)) \div MsPerSecond
    IN IF text = <<>> THEN <<>>
       ELSE IF include_timestamps
       THEN <<"[">> \o Format02d(minutes) \o <<":">> \o Format02d(seconds)
            \o <<"]", " ">> \o text
       ELSE text

RECURSIVE NormalizedLines(_, _)
NormalizedLines(segments, include_timestamps) ==
    IF segments = <<>> THEN <<>>
    ELSE LET line == SegmentLine(Head(segments), include_timestamps) IN
         (IF line = <<>> THEN <<>> ELSE <<line>>)
         \o NormalizedLines(Tail(segments), include_timestamps)

normalize_transcript(segments, include_timestamps) ==
    Join(<<"\n">>, NormalizedLines(segments, include_timestamps))

-----------------------------------------------------------------------------
(* fetch_transcript                                                        *)

\* `except base:` catches the raised result r.
Catches(base, r) ==
    \* The exception classes of the transcript library and their base classes.
    LET ExcBases ==
            [ AttributeError |-> {"AttributeError", "Exception"},
            InvalidVideoId |-> {"InvalidVideoId", "CouldNotRetrieveTranscript",
                                  "YouTubeTranscriptApiException", "Exception"},
              VideoUnavailable |-> {"VideoUnavailable", "CouldNotRetrieveTranscript",
                                    "YouTubeTranscriptApiException", "Exception"},
              CouldNotRetrieveTranscript |-> {"CouldNotRetrieveTranscript",
                                              "YouTubeTranscriptApiException", "Exception"},
              YouTubeTranscriptApiException |-> {"YouTubeTranscriptApiException", "Exception"},
              ValueError |-> {"ValueError", "Exception"},
              ConnectionError |-> {"ConnectionError", "Exception"} ]
    IN  r.kind = "raise" /\ base \in ExcBases[r.exc]

MsgNoTranscripts ==
    <<"N","o"," ","t","r","a","n","s","c","r","i","p","t","s"," ","a","v","a",
      "i","l","a","b","l","e"," ","f","o","r"," ","t","h","i","s"," ","v","i",
      "d","e","o",".">>

\* What the provider hands back for a track: its language code (PyNone
\* when the object has no such attribute) and its segments.
Fetched(code, segments) == [language_code |-> code, segments |-> segments]

\* tlist.find_manually_created_transcript([language_code]).
RECURSIVE find_manually_created_transcript(_, _)
find_manually_created_transcript(tlist, language_code) ==
    IF tlist = <<>> THEN Raise("CouldNotRetrieveTranscript", <<>>)
    ELSE IF ~Head(tlist).is_generated /\ Head(tlist).language_code = language_code
    THEN Return(Head(tlist))
    ELSE find_manually_created_transcript(Tail(tlist), language_code)

\* The candidate track of the fallback: <<track>>, or <<>> for None.
Candidate_first_track(tlist, language_code) ==
    IF tlist = <<>> THEN <<>> ELSE <<Head(tlist)>>

Candidate(tlist, language_code) ==
    LET found == find_manually_created_transcript(tlist, language_code) IN
    IF found.kind = "return" THEN <<found.val>>
    ELSE IF tlist = <<>> THEN <<>>
    ELSE <<Head(tlist)>>

\* The language reported after a failed translation.
\* The inner try of the branch with a language: Return(<<fetched, used>>)
\* or the exception that leaves it.
FetchInLanguage(language_code, provider) ==
    IF provider.direct.kind = "return"
    THEN Return(<<provider.direct.val,
                  IF provider.direct.val.language_code = PyNone
                  THEN language_code
                  ELSE provider.direct.val.language_code>>)
    ELSE IF ~Catches("CouldNotRetrieveTranscript", provider.direct)
    THEN provider.direct
    ELSE IF provider.listing.kind = "raise" THEN provider.listing
    ELSE LET found == Candidate(provider.listing.val, language_code)
             candidate == found[1]
         IN IF found = <<>> THEN Raise("ValueError", MsgNoTranscripts)
            ELSE IF candidate.translated.kind = "return"
            THEN Return(<<candidate.translated.val, language_code>>)
            ELSE IF candidate.own.kind = "return"
            THEN Return(<<candidate.own.val, candidate.language_code>>)
            ELSE candidate.own

\* The branch without a language.
FetchDefault(provider) ==
    IF provider.plain.kind = "return"
    THEN Return(<<provider.plain.val,
                  IF provider.plain.val.language_code = PyNone
                  THEN <<>>
                  ELSE provider.plain.val.language_code>>)
    ELSE provider.plain

\* The except clauses of the outer try, in their order.
MapException(r) ==
    LET MsgInvalidVideoId ==
            <<"I","n","v","a","l","i","d"," ","v","i","d","e","o"," ","I","D"," ","p",
              "r","o","v","i","d","e","d",";"," ","c","o","u","l","d"," ","n","o","t",
              " ","f","e","t","c","h"," ","t","r","a","n","s","c","r","i","p","t",
              ".">>
        MsgUnavailable ==
            <<"T","h","e"," ","r","e","q","u","e","s","t","e","d"," ","v","i","d","e",
              "o"," ","i","s"," ","u","n","a","v","a","i","l","a","b","l","e"," ","o",
              "r"," ","p","r","i","v","a","t","e",".">>
    IN
    IF Catches("InvalidVideoId", r) THEN Raise("ValueError", MsgInvalidVideoId)
    ELSE IF Catches("VideoUnavailable", r) THEN Raise("ValueError", MsgUnavailable)
    ELSE IF Catches("CouldNotRetrieveTranscript", r) THEN Raise("ValueError", r.msg)
    ELSE IF Catches("YouTubeTranscriptApiException", r) THEN Raise("ValueError", r.msg)
    ELSE r

\* Returns Return(<<text, language_used>>).
fetch_transcript(language_code, include_timestamps, provider) ==
    LET got == IF language_code # PyNone /\ language_code # <<>>
               THEN FetchInLanguage(language_code, provider)
               ELSE FetchDefault(provider)
    IN IF got.kind = "raise" THEN MapException(got)
       ELSE Return(<<normalize_transcript(got.val[1].segments, include_timestamps),
                     got.val[2]>>)

-----------------------------------------------------------------------------
(* expand_playlist_video_ids                                               *)

\* x.get(k, default) of a dict.
GetOr(j, k, default) == IF HasKey(j, k) THEN Lookup(j, k) ELSE default

\* it.get("contentDetails", {}).get("videoId")
VideoIdOf(it) ==
    GetOr(GetOr(it, "contentDetails", JDict(<<>>)), "videoId", JNull)

\* The for loop over the items of one page: the results after it, and
\* whether the function returned from inside the loop.
RECURSIVE ScanItems(_, _, _)
ScanItems(items, results, limit) ==
    IF items = <<>> THEN [results |-> results, returned |-> FALSE]
    ELSE LET vid == VideoIdOf(Head(items)) IN
         IF ~Truthy(vid) THEN ScanItems(Tail(items), results, limit)
         ELSE IF Len(results) + 1 >= limit
         THEN [results |-> Append(results, vid.s), returned |-> TRUE]
         ELSE ScanItems(Tail(items), Append(results, vid.s), limit)

\* One pass of the while loop up to its token test: the results, and
\* whether another page is requested.
AfterPage(data, results, limit) ==
    LET scan == ScanItems(GetOr(data, "items", JList(<<>>)).l, results, limit)
        token == GetOr(data, "nextPageToken", JNull)
    IN [results |-> scan.results,
        more |-> /\ ~scan.returned
                 /\ Truthy(token)
                 /\ Len(scan.results) < limit]

\* _yt_api_get(...) or {}
NextData(env, resp) ==
    IF Truthy(_yt_api_get(env, resp)) THEN _yt_api_get(env, resp) ELSE JDict(<<>>)

\* The while loop against a provider that answers the requests with the
\* responses of `feed`, in order, and fails the requests after them.
RECURSIVE PagingLoop(_, _, _, _, _)
PagingLoop(env, data, feed, results, limit) ==
    LET step == AfterPage(data, results, limit) IN
    IF ~step.more THEN step.results
    ELSE IF feed = <<>>
    THEN PagingLoop(env, NextData(env, HttpError), <<>>, step.results, limit)
    ELSE PagingLoop(env, NextData(env, Head(feed)), Tail(feed), step.results, limit)

expand_playlist_video_ids(env, feed, limit) ==
    LET data == _yt_api_get(env, IF feed = <<>> THEN HttpError ELSE Head(feed)) IN
    IF ~Truthy(data) THEN <<>>
    ELSE PagingLoop(env, data, IF feed = <<>> THEN <<>> ELSE Tail(feed), <<>>, limit)

-----------------------------------------------------------------------------
(* expand_channel_recent_video_ids                                         *)

\* data[k1][0][k2][k3]... inside `try ... except Exception: return None`:
\* the value, or JNull when a subscript raises.
RECURSIVE Dig(_, _)
Dig(j, path) ==
    IF path = <<>> THEN j
    ELSE LET r == IF Head(path) = "0" THEN SubIdx(j, 0) ELSE SubKey(j, Head(path)) IN
         IF r.kind = "raise" THEN JNull ELSE Dig(r.val, Tail(path))

_uploads_playlist_id(env, resp) ==
    Dig(_yt_api_get(env, resp),
        <<"items", "0", "contentDetails", "relatedPlaylists", "uploads">>)

_resolve_channel_id_from_handle(env, resp) ==
    Dig(_yt_api_get(env, resp), <<"items", "0", "snippet", "channelId">>)

\* The provider answers the search request with `search`, the channels
\* request with `channels` and the playlistItems requests with `feed`.
expand_channel_recent_video_ids(env, channel_url, limit, search, channels, feed) ==
    LET direct == parse_channel_id(channel_url)
        handle == parse_channel_handle(channel_url)
        cid == IF direct # PyNone THEN JStr(direct)
               ELSE IF handle # PyNone
               THEN _resolve_channel_id_from_handle(env, search)
               ELSE JNull
    IN IF ~Truthy(cid) THEN <<>>
       ELSE IF ~Truthy(_uploads_playlist_id(env, channels)) THEN <<>>
       ELSE expand_playlist_video_ids(env, feed, limit)

-----------------------------------------------------------------------------
(* expand_inputs_to_video_ids                                              *)

MsgUnrecognized ==
    <<"U","n","r","e","c","o","g","n","i","z","e","d"," ","U","R","L"," ","(",
      "n","o","t"," ","a"," ","v","i","d","e","o","/","p","l","a","y","l","i",
      "s","t","/","c","h","a","n","n","e","l",")",":"," ">>

MsgPlaylistKey ==
    <<"P","l","a","y","l","i","s","t"," ","e","x","p","a","n","s","i","o","n",
      " ","r","e","q","u","i","r","e","s"," ","Y","O","U","T","U","B","E","_",
      "A","P","I","_","K","E","Y"," ","/"," ","Y","T","_","A","P","I","_","K",
      "E","Y",".">>

MsgNoPlaylistId ==
    <<"C","o","u","l","d"," ","n","o","t"," ","e","x","t","r","a","c","t"," ",
      "p","l","a","y","l","i","s","t"," ","I","D"," ","f","r","o","m"," ","p",
      "l","a","y","l","i","s","t","_","u","r","l",".">>

MsgChannelKey ==
    <<"C","h","a","n","n","e","l"," ","e","x","p","a","n","s","i","o","n"," ",
      "r","e","q","u","i","r","e","s"," ","Y","O","U","T","U","B","E","_","A",
      "P","I","_","K","E","Y"," ","/"," ","Y","T","_","A","P","I","_","K","E",
      "Y",".">>

MsgNoChannel ==
    <<"C","o","u","l","d"," ","n","o","t"," ","r","e","s","o","l","v","e"," ",
      "c","h","a","n","n","e","l"," ","v","i","d","e","o","s"," ","f","r","o",
      "m"," ","c","h","a","n","n","e","l","_","u","r","l",".">>

\* The accumulators of the function.
Acc(out, seen, errors) == [out |-> out, seen |-> seen, errors |-> errors]

\* if v not in seen: out.append(v); seen.add(v)
AddId_no_seen_check(acc, v) ==
    Acc(Append(acc.out, v), acc.seen \cup {v}, acc.errors)

AddId(acc, v) ==
    IF v \in acc.seen THEN acc
    ELSE Acc(Append(acc.out, v), acc.seen \cup {v}, acc.errors)

\* if not (pl or ch), with pl and ch as the three parsers return them.
Unclassified_playlist_only(u) == parse_playlist_id(u) = PyNone

Unclassified(u) ==
    /\ parse_playlist_id(u) = PyNone
    /\ parse_channel_id(u) = PyNone
    /\ parse_channel_handle(u) = PyNone

\* The body of the loop over urls.
UrlEntry(acc, u) ==
    LET vid == parse_video_id(u) IN
    IF vid.kind = "return" THEN AddId(acc, vid.val)
    ELSE IF Unclassified(u)
    THEN Acc(acc.out, acc.seen, Append(acc.errors, MsgUnrecognized \o format(u)))
    ELSE acc

\* for u in urls or [], urls being a list
RECURSIVE UrlsLoop(_, _)
UrlsLoop(acc, urls) ==
    IF urls = <<>> THEN acc
    ELSE UrlsLoop(UrlEntry(acc, Head(urls)), Tail(urls))

\* for v in vids: ...
RECURSIVE Merge(_, _)
Merge(acc, vids) ==
    IF vids = <<>> THEN acc ELSE Merge(AddId(acc, Head(vids)), Tail(vids))

AddError(acc, msg) == Acc(acc.out, acc.seen, Append(acc.errors, msg))

\* `if playlist_url:` / `if channel_url:`
Given(url) == url # PyNone /\ url # <<>>

\* The playlist block, vids being what expand_playlist_video_ids returns.
PlaylistBlock(acc, env, playlist_url, vids) ==
    IF ~Given(playlist_url) THEN acc
    ELSE IF ~HasKeyConfigured(env) THEN AddError(acc, MsgPlaylistKey)
    ELSE IF parse_playlist_id(playlist_url) # PyNone THEN Merge(acc, vids)
    ELSE AddError(acc, MsgNoPlaylistId)

\* The channel block, vids being what expand_channel_recent_video_ids returns.
ChannelBlock(acc, env, channel_url, vids) ==
    IF ~Given(channel_url) THEN acc
    ELSE IF ~HasKeyConfigured(env) THEN AddError(acc, MsgChannelKey)
    ELSE IF vids # <<>> THEN Merge(acc, vids)
    ELSE AddError(acc, MsgNoChannel)

-----------------------------------------------------------------------------
(* sanitize_filename, unique_name                                          *)

NameLimit == 120

RECURSIVE Delete(_, _)
Delete(s, chars) ==
    IF s = <<>> THEN <<>>
    ELSE IF Head(s) \in chars THEN Delete(Tail(s), chars)
    ELSE <<Head(s)>> \o Delete(Tail(s), chars)

\* The replace calls delete the Forbidden characters; Take(s, n) is s[:n].
sanitize_filename(name) ==
    LET Forbidden == {"\\", "/", ":", "*", "?", "\"", "<", ">", "|"}
        DefaultName == <<"t","r","a","n","s","c","r","i","p","t">>
        Take(s, n) == IF Len(s) <= n THEN s ELSE SubSeq(s, 1, n)
        cleaned == strip(Delete(IF name = PyNone THEN <<>> ELSE name, Forbidden))
    IN Take(IF cleaned = <<>> THEN DefaultName ELSE cleaned, NameLimit)

\* The counter dict is a function from the bases used so far to their count.
NoNames == [b \in {} |-> 0]

\* The name returned and the dict as the call leaves it.
unique_name(base, used) ==
    LET SetCount(n) ==
            [b \in DOMAIN used \cup {base} |-> IF b = base THEN n ELSE used[b]]
    IN IF base \notin DOMAIN used
       THEN [name |-> base, used |-> SetCount(1)]
       ELSE [name |-> base \o <<" ", "(">> \o IntToStr(used[base] + 1) \o <<")">>,
             used |-> SetCount(used[base] + 1)]

-----------------------------------------------------------------------------
(* bulk_transcripts_endpoint                                               *)

MsgNoVideos ==
    <<"N","o"," ","v","i","d","e","o","s"," ","t","o"," ","p","r","o","c","e",
      "s","s","."," ","P","r","o","v","i","d","e"," ","v","a","l","i","d"," ",
      "v","i","d","e","o"," ","U","R","L","s"," ","o","r"," ","s","e","t"," ",
      "Y","O","U","T","U","B","E","_","A","P","I","_","K","E","Y"," ","f","o",
      "r"," ","p","l","a","y","l","i","s","t","/","c","h","a","n","n","e","l",
      " ","e","x","p","a","n","s","i","o","n",".">>

ReportName ==
    <<"e","r","r","o","r","s","_","r","e","p","o","r","t",".","t","x","t">>

\* An entry of the archive.
Entry(name, data) == [name |-> name, data |-> data]

\* `if not video_ids`
NoVideos_never(video_ids) == Len(video_ids) < 0

NoVideos(video_ids) == video_ids = <<>>

\* `except Exception as ex`
Caught_value_error_only(r) == Catches("ValueError", r)

Caught(r) == Catches("Exception", r)

\* The try block for one video: the entry to write and the dict of names it
\* leaves, or the exception raised.  provider answers fetch_transcript and
\* answer (env, api, oembed) answers fetch_video_title.
TryVideo(vid, language, include_timestamps, provider, answer, used_names) ==
    LET fetched == fetch_transcript(language, include_timestamps, provider) IN
    IF fetched.kind = "raise" THEN fetched
    ELSE LET looked == fetch_video_title(answer.env, answer.api, answer.oembed) IN
         IF looked.kind = "raise" THEN looked
         ELSE LET title == IF looked.val = PyNone \/ looked.val = <<>>
                           THEN vid ELSE looked.val
                  unique == unique_name(sanitize_filename(title), used_names)
              IN Return([entry |-> Entry(unique.name \o <<".","t","x","t">>,
                                         fetched.val[1]),
                         used_names |-> unique.used])

\* A response: the status (0 before the return, 400 with the detail and the
\* expansion errors, 200 with the archive as <<entries>>, 500 for an exception
\* that leaves the handler).
Response(status, detail, expansion_errors, zip) ==
    [status |-> status, detail |-> detail,
     expansion_errors |-> expansion_errors, zip |-> zip]

-----------------------------------------------------------------------------
(* Inputs of the parser: every concatenation of at most MaxChunks pieces,  *)
(* the URLs of the tests, and a value that is no string.                   *)

MaxChunks == 3

TokA == <<"d","Q","w","4","w","9","W","g","X","c","Q">>

TokB == <<"a","b","c","_","D","E","F","-","1","2","3">>

RECURSIVE ChunkStrings(_)
ChunkStrings(n) ==
    LET Chunks ==
            { TokA, <<"v","=">> \o TokB, <<"b","e","/">> \o TokB,
              <<"e","m","b","e","d","/">> \o TokB,
              <<"v","=">>, <<"?">>, <<"b","e","/">>, <<"e","m","b","e","d","/">>,
              <<"s","h","o","r","t","s","/">>, <<"x","7">>, <<" ">>, <<"\n">> }
    IN
    IF n = 0 THEN {<<>>}
    ELSE LET shorter == ChunkStrings(n - 1) IN
         shorter \cup {c \o s : c \in Chunks, s \in shorter}

UrlShort ==
    <<"h","t","t","p","s",":","/","/","y","o","u","t","u",".","b","e","/">> \o TokA

UrlExample ==
    <<"h","t","t","p","s",":","/","/","e","x","a","m","p","l","e",".","c","o","m">>

ParseInputs ==
    LET UrlWatch ==
            <<"h","t","t","p","s",":","/","/","w","w","w",".","y","o","u","t","u","b",
              "e",".","c","o","m","/","w","a","t","c","h","?","v","=">> \o TokA
        UrlEmbed ==
            <<"h","t","t","p","s",":","/","/","w","w","w",".","y","o","u","t","u","b",
              "e",".","c","o","m","/","e","m","b","e","d","/">> \o TokA
        UrlShorts ==
            <<"h","t","t","p","s",":","/","/","w","w","w",".","y","o","u","t","u","b",
              "e",".","c","o","m","/","s","h","o","r","t","s","/">> \o TokB
        TestUrls == {UrlWatch, UrlShort, UrlEmbed, UrlShorts, UrlExample}
    IN  ChunkStrings(MaxChunks) \cup TestUrls \cup {PyNone}

-----------------------------------------------------------------------------
(* Inputs of fetch_video_title                                             *)

KeyText == <<"k","e","y">>

\* The values a title field may hold.
TitleFields ==
    LET ApiTitleText == <<" ","A","p","i"," ","T"," ">>
        EmbedTitleText == <<"E","m","b","e","d"," ","T","\n">>
    IN
    { JStr(ApiTitleText), JStr(EmbedTitleText), JStr(<<>>), JStr(<<" ">>), JNull,
      JNum(7), JNum(0), JList(<<JStr(<<"x">>)>>) }

VideosBody(title) ==
    JDict(<< <<"items", JList(<< JDict(<< <<"snippet", JDict(<< <<"title", title>> >>)>> >>) >>)>> >>)

ApiResponses ==
    LET ApiBodies ==
            {VideosBody(x) : x \in TitleFields} \cup
            { JDict(<<>>), JDict(<< <<"items", JList(<<>>)>> >>),
              JDict(<< <<"items", JList(<< JDict(<<>>) >>)>> >>),
              JDict(<< <<"items", JList(<< JDict(<< <<"snippet", JDict(<<>>)>> >>) >>)>> >>),
              JDict(<< <<"items", JStr(<<"x">>)>> >>),
              JDict(<< <<"error", JStr(<<"x">>)>> >>),
              JList(<<>>), JList(<<JNum(1)>>), JStr(<<"x">>), JNull }
    IN
    {HttpError} \cup {HttpOk(200, b) : b \in ApiBodies} \cup {HttpOk(403, JDict(<<>>))}

OembedResponses ==
    LET OembedBodies ==
            {JDict(<< <<"title", x>> >>) : x \in TitleFields} \cup
            { JDict(<<>>), JDict(<< <<"author", JStr(<<"x">>)>> >>), JList(<<>>),
              JList(<<JNum(1)>>), JStr(<<"x">>), JNull }
    IN
    {HttpError} \cup {HttpOk(200, b) : b \in OembedBodies}
    \cup {HttpOk(404, JStr(<<"x">>))}

-----------------------------------------------------------------------------
(* Inputs of fetch_transcript                                              *)

MaxTracks == 2

LangDe == <<"d","e">>

LangEn == <<"e","n">>

\* Segments that tell the three sources apart; the second one is blank.
SegmentsOf(tag) ==
    << Segment(<<" ">> \o tag, <<62500>>), Segment(<<" ">>, <<0>>), Segment(<<"x">>, <<>>) >>

ProviderError == <<"n","o","p","e">>

RECURSIVE TrackLists(_)
TrackLists(n) ==
    \* A track of the listing: translated and own are what
    \* translate(L).fetch() and fetch() do, a Return(Fetched) or a Raise.
    LET Track(code, generated, translated, own) ==
            [language_code |-> code, is_generated |-> generated,
             translated |-> translated, own |-> own]
        TrackPool ==
            { Track(code, gen,
                    IF tok THEN Return(Fetched(LangDe, SegmentsOf(<<"t">> \o code)))
                    ELSE Raise("CouldNotRetrieveTranscript", ProviderError),
                    IF ook THEN Return(Fetched(code, SegmentsOf(<<"o">> \o code)))
                    ELSE Raise("CouldNotRetrieveTranscript", ProviderError))
              : code \in {LangDe, LangEn}, gen \in BOOLEAN, tok \in BOOLEAN, ook \in BOOLEAN }
    IN
    IF n = 0 THEN {<<>>}
    ELSE LET shorter == TrackLists(n - 1) IN
         shorter \cup {<<x>> \o s : x \in TrackPool, s \in shorter}

\* What api.fetch does: an object with or without a language_code, or one
\* of the library's exceptions, or an exception of another library.
FetchOutcomes ==
    { Return(Fetched(LangDe, SegmentsOf(<<"d">>))),
      Return(Fetched(PyNone, SegmentsOf(<<"d">>))),
      Raise("CouldNotRetrieveTranscript", ProviderError),
      Raise("InvalidVideoId", ProviderError),
      Raise("VideoUnavailable", ProviderError),
      Raise("YouTubeTranscriptApiException", ProviderError),
      Raise("ConnectionError", ProviderError) }

NoProvider ==
    [direct |-> Raise("CouldNotRetrieveTranscript", ProviderError),
     plain |-> Raise("CouldNotRetrieveTranscript", ProviderError),
     listing |-> Raise("CouldNotRetrieveTranscript", ProviderError)]

-----------------------------------------------------------------------------
(* Inputs of normalize_transcript                                          *)

MaxSegments == 2

\* Every sequence of at most n segments: texts that are absent, empty, blank,
\* padded, or hold an inner space, and start times that are absent, zero,
\* just under a minute, those of the tests, an hour and over 100 minutes.
RECURSIVE SegmentLists(_)
SegmentLists(n) ==
    LET Texts == {PyNone, <<" ", "\t">>, <<" ", "a", " ">>, <<"b", "\n">>, <<"c", " ", "d">>}
        Starts == {<<>>, <<0>>, <<1000>>, <<59999>>, <<62500>>, <<3600000>>, <<6005250>>}
        SegmentPool == {Segment(text, start) : text \in Texts, start \in Starts}
    IN
    IF n = 0 THEN {<<>>}
    ELSE LET shorter == SegmentLists(n - 1) IN
         shorter \cup {<<seg>> \o s : seg \in SegmentPool, s \in shorter}

-----------------------------------------------------------------------------
(* Inputs of expand_playlist_video_ids                                     *)

MaxLimit == 3

MaxRequests == 3

TokC == <<"C","C","C","C","C","C","C","C","C","C","C">>

PlaylistItem(vid) ==
    JDict(<< <<"contentDetails", JDict(<< <<"videoId", JStr(vid)>> >>)>> >>)

\* An item without a video id.
ItemNoVideo == JDict(<< <<"kind", JStr(<<"x">>)>> >>)

PageBody(items, token) ==
    IF token
    THEN JDict(<< <<"items", JList(items)>>, <<"nextPageToken", JStr(<<"t">>)>> >>)
    ELSE JDict(<< <<"items", JList(items)>> >>)

PageResponses ==
    LET PageItems ==
            { <<>>, <<ItemNoVideo>>, <<PlaylistItem(TokA)>>,
              <<ItemNoVideo, PlaylistItem(TokB)>>,
              <<PlaylistItem(TokA), PlaylistItem(TokB), PlaylistItem(TokC)>> }
    IN
    {HttpOk(200, PageBody(i, tk)) : i \in PageItems, tk \in BOOLEAN}
    \cup {HttpError, HttpOk(403, JDict(<<>>)), HttpOk(200, JDict(<<>>))}

KeyEnv == Env(KeyText, PyNone)

NoKeyEnv == Env(PyNone, PyNone)

-----------------------------------------------------------------------------
(* Inputs of expand_inputs_to_video_ids                                    *)

MaxUrls == 2

PlaylistUrl ==
    <<"y","o","u","t","u","b","e",".","c","o","m","/","p","l","a","y","l","i",
      "s","t","?","l","i","s","t","=","P","L","-","1","_","a">>

HandleUrl ==
    <<"y","o","u","t","u","b","e",".","c","o","m","/","@","s","o","m","e",".",
      "o","n","e">>

\* A raw id, the same id inside a URL, another video, a playlist-shaped and
\* a channel-shaped entry, an unrecognized URL and an entry that is no string.
UrlPool ==
    LET UrlWatchB ==
            <<"y","o","u","t","u","b","e",".","c","o","m","/","w","a","t","c","h","?",
              "v","=">> \o TokB
    IN {TokA, UrlShort, UrlWatchB, PlaylistUrl, HandleUrl, UrlExample, PyNone}

RECURSIVE UrlLists(_)
UrlLists(n) ==
    IF n = 0 THEN {<<>>}
    ELSE LET shorter == UrlLists(n - 1) IN
         shorter \cup {<<u>> \o s : u \in UrlPool, s \in shorter}

ChannelRefs ==
    LET ChannelUrl ==
            <<"y","o","u","t","u","b","e",".","c","o","m","/","c","h","a","n","n","e",
              "l","/","U","C","0","1","2","3","4","5","6","7","8","9","a","b","c","d",
              "e","f","g","h","i","j","k","l">>
    IN  {PyNone, ChannelUrl, HandleUrl, UrlExample}

\* The playlistItems answers of one expansion: a page that repeats a video
\* of the url pool and names a next page, and a last page with an item to
\* skip; the requests after the feed fail.
ExpandPages ==
    { HttpOk(200, PageBody(<<PlaylistItem(TokA)>>, TRUE)),
      HttpOk(200, PageBody(<<ItemNoVideo, PlaylistItem(TokC), PlaylistItem(TokB)>>,
                           FALSE)) }

ExpandFeeds ==
    {<<>>} \cup {<<a>> : a \in ExpandPages} \cup {<<a, b>> : a \in ExpandPages, b \in ExpandPages}

SearchResponses ==
    { HttpError,
      HttpOk(200, JDict(<< <<"items", JList(<< JDict(<< <<"snippet",
          JDict(<< <<"channelId", JStr(<<"U","C","x">>)>> >>)>> >>) >>)>> >>)) }

ChannelsResponses ==
    { HttpOk(200, JDict(<< <<"items", JList(<<>>)>> >>)),
      HttpOk(200, JDict(<< <<"items", JList(<< JDict(<< <<"contentDetails",
          JDict(<< <<"relatedPlaylists",
              JDict(<< <<"uploads", JStr(<<"U","U","x">>)>> >>)>> >>)>> >>) >>)>> >>)) }

ExpandLimits == {1, MaxLimit}

ExpandEnvs == {KeyEnv, NoKeyEnv}

\* What expand_playlist_video_ids and expand_channel_recent_video_ids can
\* return for the calls of this model, over the answers of the provider.
PlaylistVids ==
    [env \in ExpandEnvs, limit \in ExpandLimits |->
        {expand_playlist_video_ids(env, feed, limit) : feed \in ExpandFeeds}]

ChannelVids ==
    [env \in ExpandEnvs, channel_url \in ChannelRefs \ {PyNone},
     limit \in ExpandLimits |->
        {expand_channel_recent_video_ids(env, channel_url, limit, search, channels, feed)
         : search \in SearchResponses, channels \in ChannelsResponses,
           feed \in ExpandFeeds}]

-----------------------------------------------------------------------------
(* Inputs of bulk_transcripts_endpoint                                     *)

MaxVideos == 3

\* The lists expand returns: no id twice.
RECURSIVE VideoIdLists(_)
VideoIdLists(n) ==
    IF n = 0 THEN {<<>>}
    ELSE LET shorter == VideoIdLists(n - 1) IN
         shorter \cup UNION {{Append(s, v) : v \in {x \in {TokA, TokB, TokC} :
                                                     \A k \in 1..Len(s) : s[k] # x}}
                             : s \in shorter}

\* The transcript provider: it serves the video, it has no transcript, or
\* the connection to it fails.
ConnectionReset == <<"r","e","s","e","t">>

TitleIntro == <<"I","n","t","r","o">>

TitleIntro2 == <<"I","n","t","r","o"," ","(","2",")">>

TitleAnswer(env, api, oembed) == [env |-> env, api |-> api, oembed |-> oembed]

\* The title providers: oEmbed titles, no title, a title that is no string,
\* and a title of the Data API.
BulkTitleAnswers ==
    LET TitleIntroDirty == <<" ","I","n","/","t","r","o",":"," ">>
        TitleReport == <<"e","r","r","o","r","s","_","r","e","p","o","r","t">>
        TitleNoName == <<"?","?">>
    IN
    { TitleAnswer(NoKeyEnv, HttpError, HttpOk(200, JDict(<< <<"title", JStr(x)>> >>)))
      : x \in {TitleIntro, TitleIntro2, TitleIntroDirty, TitleReport, TitleNoName} }
    \cup { TitleAnswer(NoKeyEnv, HttpError, HttpError),
           TitleAnswer(NoKeyEnv, HttpError, HttpOk(200, JDict(<< <<"title", JNum(7)>> >>))),
           TitleAnswer(KeyEnv, HttpOk(200, VideosBody(JStr(TitleIntro))), HttpError) }

-----------------------------------------------------------------------------
(* The state machines: each specification runs one component from its      *)
(* inputs while the variables of the other components rest.                *)

\* The variables of the calls a specification does not make keep the values
\* given here; running names the function the specification calls.
Idle(running) ==
    /\ IF running = "parse_video_id" THEN TRUE
       ELSE pv_url = PyNone /\ pv_result = Pending
    /\ IF running = "fetch_video_title" THEN TRUE
       ELSE /\ ft_env = Env(PyNone, PyNone)
            /\ ft_api = HttpError
            /\ ft_oembed = HttpError
            /\ ft_result = Pending
    /\ IF running = "fetch_transcript" THEN TRUE
       ELSE /\ tr_language = PyNone
            /\ tr_timestamps = FALSE
            /\ tr_provider = NoProvider
            /\ tr_result = Pending
    /\ IF running = "expand_playlist_video_ids" THEN TRUE
       ELSE /\ pl_env = NoKeyEnv
            /\ pl_limit = 0
            /\ pl_pc = "idle"
            /\ pl_data = JNull
            /\ pl_results = <<>>
            /\ pl_served = <<>>
    /\ IF running = "expand_inputs_to_video_ids" THEN TRUE
       ELSE /\ ex_pc = "idle"
            /\ ex_urls = <<>>
            /\ ex_playlist_url = PyNone
            /\ ex_channel_url = PyNone
            /\ ex_limit = 0
            /\ ex_env = NoKeyEnv
            /\ ex_out = <<>>
            /\ ex_seen = {}
            /\ ex_errors = <<>>
            /\ ex_playlist_vids = <<>>
            /\ ex_channel_vids = <<>>
    /\ IF running = "bulk_transcripts_endpoint" THEN TRUE
       ELSE /\ bk_pc = "idle"
            /\ bk_video_ids = <<>>
            /\ bk_expansion_errors = <<>>
            /\ bk_language = PyNone
            /\ bk_timestamps = FALSE
            /\ bk_i = 0
            /\ bk_used_names = NoNames
            /\ bk_errors = <<>>
            /\ bk_zip = <<>>
            /\ bk_calls = <<>>
            /\ bk_response = Response(0, <<>>, <<>>, <<>>)
    /\ IF running = "normalize_transcript" THEN TRUE
       ELSE /\ nt_segments = <<>>
            /\ nt_timestamps = FALSE
            /\ nt_result = Pending

InitParse ==
    /\ pv_url \in ParseInputs
    /\ pv_result = Pending
    /\ Idle("parse_video_id")

\* A call parse_video_id(pv_url).
ParseVideoId ==
    /\ pv_result = Pending
    /\ pv_result' = parse_video_id(pv_url)
    /\ UNCHANGED pv_url
    /\ UNCHANGED <<titleVars, transcriptVars, playlistVars, expandVars, bulkVars, normalizeVars>>

SpecParse == InitParse /\ [][ParseVideoId]_vars

InitTitle ==
    LET TitleEnvs ==
            { Env(PyNone, PyNone), Env(<<>>, PyNone), Env(KeyText, PyNone),
              Env(PyNone, KeyText), Env(<<>>, KeyText) }
    IN
    /\ ft_env \in TitleEnvs
    /\ ft_api \in ApiResponses
    /\ ft_oembed \in OembedResponses
    /\ ft_result = Pending
    /\ Idle("fetch_video_title")

\* A call fetch_video_title(video_id) against the two providers.
FetchVideoTitle ==
    /\ ft_result = Pending
    /\ ft_result' = fetch_video_title(ft_env, ft_api, ft_oembed)
    /\ UNCHANGED <<ft_env, ft_api, ft_oembed>>
    /\ UNCHANGED <<parseVars, transcriptVars, playlistVars, expandVars, bulkVars, normalizeVars>>

SpecTitle == InitTitle /\ [][FetchVideoTitle]_vars

\* Without a language only the plain fetch is consulted, with one only the
\* fetch in that language and the listing.
InitTranscript ==
    LET ListingOutcomes ==
            {Return(l) : l \in TrackLists(MaxTracks)}
            \cup {Raise("CouldNotRetrieveTranscript", ProviderError)}
    IN
    /\ tr_timestamps \in BOOLEAN
    /\ tr_result = Pending
    /\ \/ /\ tr_language \in {PyNone, <<>>}
          /\ \E p \in FetchOutcomes : tr_provider = [NoProvider EXCEPT !.plain = p]
       \/ /\ tr_language \in {LangDe}
          /\ \E d \in FetchOutcomes, l \in ListingOutcomes :
                tr_provider = [NoProvider EXCEPT !.direct = d, !.listing = l]
    /\ Idle("fetch_transcript")

\* A call fetch_transcript(video_id, language_code, include_timestamps).
FetchTranscript ==
    /\ tr_result = Pending
    /\ tr_result' = fetch_transcript(tr_language, tr_timestamps, tr_provider)
    /\ UNCHANGED <<tr_language, tr_timestamps, tr_provider>>
    /\ UNCHANGED <<parseVars, titleVars, playlistVars, expandVars, bulkVars, normalizeVars>>

SpecTranscript == InitTranscript /\ [][FetchTranscript]_vars

InitNormalize ==
    /\ nt_segments \in SegmentLists(MaxSegments)
    /\ nt_timestamps \in BOOLEAN
    /\ nt_result = Pending
    /\ Idle("normalize_transcript")

\* A call normalize_transcript(segments, include_timestamps).
NormalizeTranscript ==
    /\ nt_result = Pending
    /\ nt_result' = Return(normalize_transcript(nt_segments, nt_timestamps))
    /\ UNCHANGED <<nt_segments, nt_timestamps>>
    /\ UNCHANGED <<parseVars, titleVars, transcriptVars, playlistVars, expandVars, bulkVars>>

SpecNormalize == InitNormalize /\ [][NormalizeTranscript]_vars

\* expand_playlist_video_ids(playlist_id, limit), one action per request.
InitPlaylist ==
    LET Limits == (-1)..MaxLimit
    IN
    /\ pl_env \in {KeyEnv, NoKeyEnv}
    /\ pl_limit \in Limits
    /\ pl_pc = "call"
    /\ pl_data = JNull
    /\ pl_results = <<>>
    /\ pl_served = <<>>
    /\ Idle("expand_playlist_video_ids")

\* The responses the provider has served: none without a key, since
\* _yt_api_get then returns before the request.
Served(env, served, resp) ==
    IF HasKeyConfigured(env) THEN Append(served, resp) ELSE served

\* The first request and the test of its answer.
PlaylistFirstPage ==
    /\ pl_pc = "call"
    /\ \E resp \in PageResponses :
          /\ pl_data' = _yt_api_get(pl_env, resp)
          /\ pl_served' = Served(pl_env, pl_served, resp)
          /\ pl_pc' = IF Truthy(_yt_api_get(pl_env, resp)) THEN "loop" ELSE "done"
    /\ UNCHANGED <<pl_env, pl_limit, pl_results>>
    /\ UNCHANGED <<parseVars, titleVars, transcriptVars, expandVars, bulkVars, normalizeVars>>

\* One pass of the while loop that ends the paging.
PlaylistLastPass ==
    /\ pl_pc = "loop"
    /\ ~AfterPage(pl_data, pl_results, pl_limit).more
    /\ pl_results' = AfterPage(pl_data, pl_results, pl_limit).results
    /\ pl_pc' = "done"
    /\ UNCHANGED <<pl_env, pl_limit, pl_data, pl_served>>
    /\ UNCHANGED <<parseVars, titleVars, transcriptVars, expandVars, bulkVars, normalizeVars>>

\* One pass of the while loop that requests the next page.
PlaylistNextPage ==
    /\ pl_pc = "loop"
    /\ AfterPage(pl_data, pl_results, pl_limit).more
    /\ Len(pl_served) < MaxRequests
    /\ pl_results' = AfterPage(pl_data, pl_results, pl_limit).results
    /\ \E resp \in PageResponses :
          /\ pl_data' = NextData(pl_env, resp)
          /\ pl_served' = Served(pl_env, pl_served, resp)
    /\ UNCHANGED <<pl_env, pl_limit, pl_pc>>
    /\ UNCHANGED <<parseVars, titleVars, transcriptVars, expandVars, bulkVars, normalizeVars>>

NextPlaylist == PlaylistFirstPage \/ PlaylistLastPass \/ PlaylistNextPage

SpecPlaylist == InitPlaylist /\ [][NextPlaylist]_vars

\* A pass of the while loop that requests a page after the first MaxRequests
\* ones; pl_served keeps the first MaxRequests responses only.
PlaylistFurtherPage ==
    /\ pl_pc = "loop"
    /\ AfterPage(pl_data, pl_results, pl_limit).more
    /\ Len(pl_served) >= MaxRequests
    /\ pl_results' = AfterPage(pl_data, pl_results, pl_limit).results
    /\ \E resp \in PageResponses : pl_data' = NextData(pl_env, resp)
    /\ UNCHANGED <<pl_env, pl_limit, pl_pc, pl_served>>
    /\ UNCHANGED <<parseVars, titleVars, transcriptVars, expandVars, bulkVars, normalizeVars>>

NextPaging == NextPlaylist \/ PlaylistFurtherPage

\* The function with every page it may request: the interpreter always
\* takes the next step of the call, the provider answers as it likes.
SpecPaging == InitPlaylist /\ [][NextPaging]_vars /\ WF_vars(NextPaging)

\* expand_inputs_to_video_ids(urls, playlist_url, channel_url, limit), one
\* action per block of the function.
InitExpand ==
    LET PlaylistRefs == {PyNone, PlaylistUrl, UrlExample}
    IN
    /\ ex_pc = "urls"
    /\ ex_urls \in UrlLists(MaxUrls)
    /\ ex_playlist_url \in PlaylistRefs
    /\ ex_channel_url \in ChannelRefs
    /\ ex_limit \in ExpandLimits
    /\ ex_env \in ExpandEnvs
    /\ ex_out = <<>>
    /\ ex_seen = {}
    /\ ex_errors = <<>>
    /\ ex_playlist_vids = <<>>
    /\ ex_channel_vids = <<>>
    /\ Idle("expand_inputs_to_video_ids")

SetAcc(acc) ==
    /\ ex_out' = acc.out
    /\ ex_seen' = acc.seen
    /\ ex_errors' = acc.errors

\* The loop over urls.
ExpandUrls ==
    /\ ex_pc = "urls"
    /\ SetAcc(UrlsLoop(Acc(ex_out, ex_seen, ex_errors), ex_urls))
    /\ ex_pc' = "playlist"
    /\ UNCHANGED <<expandArgs, ex_playlist_vids, ex_channel_vids>>
    /\ UNCHANGED <<parseVars, titleVars, transcriptVars, playlistVars, bulkVars, normalizeVars>>

\* The playlist block that calls expand_playlist_video_ids.
ExpandPlaylist ==
    /\ ex_pc = "playlist"
    /\ Given(ex_playlist_url) /\ HasKeyConfigured(ex_env)
    /\ parse_playlist_id(ex_playlist_url) # PyNone
    /\ \E vids \in PlaylistVids[ex_env, ex_limit] :
          /\ ex_playlist_vids' = vids
          /\ SetAcc(PlaylistBlock(Acc(ex_out, ex_seen, ex_errors), ex_env,
                                  ex_playlist_url, vids))
    /\ ex_pc' = "channel"
    /\ UNCHANGED <<expandArgs, ex_channel_vids>>
    /\ UNCHANGED <<parseVars, titleVars, transcriptVars, playlistVars, bulkVars, normalizeVars>>

\* The playlist block that makes no request.
ExpandPlaylistSkipped ==
    /\ ex_pc = "playlist"
    /\ ~(/\ Given(ex_playlist_url) /\ HasKeyConfigured(ex_env)
         /\ parse_playlist_id(ex_playlist_url) # PyNone)
    /\ SetAcc(PlaylistBlock(Acc(ex_out, ex_seen, ex_errors), ex_env,
                            ex_playlist_url, <<>>))
    /\ ex_pc' = "channel"
    /\ UNCHANGED <<expandArgs, ex_playlist_vids, ex_channel_vids>>
    /\ UNCHANGED <<parseVars, titleVars, transcriptVars, playlistVars, bulkVars, normalizeVars>>

\* The channel block that calls expand_channel_recent_video_ids, and the
\* return.
ExpandChannel ==
    /\ ex_pc = "channel"
    /\ Given(ex_channel_url) /\ HasKeyConfigured(ex_env)
    /\ \E vids \in ChannelVids[ex_env, ex_channel_url, ex_limit] :
          /\ ex_channel_vids' = vids
          /\ SetAcc(ChannelBlock(Acc(ex_out, ex_seen, ex_errors), ex_env,
                                 ex_channel_url, vids))
    /\ ex_pc' = "done"
    /\ UNCHANGED <<expandArgs, ex_playlist_vids>>
    /\ UNCHANGED <<parseVars, titleVars, transcriptVars, playlistVars, bulkVars, normalizeVars>>

\* The channel block that makes no request, and the return.
ExpandChannelSkipped ==
    /\ ex_pc = "channel"
    /\ ~(Given(ex_channel_url) /\ HasKeyConfigured(ex_env))
    /\ SetAcc(ChannelBlock(Acc(ex_out, ex_seen, ex_errors), ex_env,
                           ex_channel_url, <<>>))
    /\ ex_pc' = "done"
    /\ UNCHANGED <<expandArgs, ex_playlist_vids, ex_channel_vids>>
    /\ UNCHANGED <<parseVars, titleVars, transcriptVars, playlistVars, bulkVars, normalizeVars>>

NextExpand ==
    \/ ExpandUrls
    \/ ExpandPlaylist
    \/ ExpandPlaylistSkipped
    \/ ExpandChannel
    \/ ExpandChannelSkipped

SpecExpand == InitExpand /\ [][NextExpand]_vars

\* bulk_transcripts_endpoint from the return of expand_inputs_to_video_ids
\* on.  bk_zip is <<>> until the archive is created and <<entries>> after;
\* bk_calls lists the calls of fetch_transcript and fetch_video_title.
InitBulk ==
    LET ExpansionErrorLists ==
            { <<>>, <<MsgChannelKey>>, <<MsgUnrecognized \o UrlExample, MsgPlaylistKey>> }
    IN
    /\ bk_pc = "check"
    /\ bk_video_ids \in VideoIdLists(MaxVideos)
    /\ bk_expansion_errors \in ExpansionErrorLists
    /\ bk_language = PyNone
    /\ bk_timestamps \in BOOLEAN
    /\ bk_i = 0
    /\ bk_used_names = NoNames
    /\ bk_errors = <<>>
    /\ bk_zip = <<>>
    /\ bk_calls = <<>>
    /\ bk_response = Response(0, <<>>, <<>>, <<>>)
    /\ Idle("bulk_transcripts_endpoint")

\* The 400 return.
BulkReject ==
    /\ bk_pc = "check"
    /\ NoVideos(bk_video_ids)
    /\ bk_response' = Response(400, MsgNoVideos, bk_expansion_errors, <<>>)
    /\ bk_pc' = "done"
    /\ UNCHANGED <<bulkArgs, bk_i, bk_used_names, bk_errors, bk_zip, bk_calls>>
    /\ UNCHANGED <<parseVars, titleVars, transcriptVars, playlistVars, expandVars, normalizeVars>>

\* The buffer, the dict of names, the error list and the archive.
BulkOpen ==
    /\ bk_pc = "check"
    /\ ~NoVideos(bk_video_ids)
    /\ bk_used_names' = NoNames
    /\ bk_errors' = <<>>
    /\ bk_zip' = << <<>> >>
    /\ bk_pc' = IF bk_video_ids = <<>> THEN "report" ELSE "loop"
    /\ UNCHANGED <<bulkArgs, bk_i, bk_calls, bk_response>>
    /\ UNCHANGED <<parseVars, titleVars, transcriptVars, playlistVars, expandVars, normalizeVars>>

\* One iteration of the loop over video_ids.
BulkVideo ==
    LET BulkProviders ==
            { [NoProvider EXCEPT !.plain = Return(Fetched(LangDe, SegmentsOf(<<"d">>)))],
              NoProvider,
              [NoProvider EXCEPT !.plain = Raise("ConnectionError", ConnectionReset)] }
    IN
    /\ bk_pc = "loop"
    /\ \E provider \in BulkProviders, answer \in BulkTitleAnswers :
          LET vid == bk_video_ids[bk_i + 1]
              r == TryVideo(vid, bk_language, bk_timestamps, provider, answer,
                            bk_used_names)
              titled == fetch_transcript(bk_language, bk_timestamps,
                                         provider).kind = "return"
              last == bk_i + 1 = Len(bk_video_ids)
          IN /\ bk_calls' = bk_calls \o <<<<"fetch_transcript", vid>>>>
                            \o IF titled THEN <<<<"fetch_video_title", vid>>>>
                               ELSE <<>>
             /\ bk_i' = bk_i + 1
             /\ IF r.kind = "return"
                THEN /\ bk_zip' = <<Append(bk_zip[1], r.val.entry)>>
                     /\ bk_used_names' = r.val.used_names
                     /\ bk_pc' = IF last THEN "report" ELSE "loop"
                     /\ UNCHANGED <<bk_errors, bk_response>>
                ELSE IF Caught(r)
                THEN /\ bk_errors' = Append(bk_errors, vid \o <<":", " ">> \o r.msg)
                     /\ bk_pc' = IF last THEN "report" ELSE "loop"
                     /\ UNCHANGED <<bk_zip, bk_used_names, bk_response>>
                ELSE /\ bk_response' = Response(500, <<>>, <<>>, <<>>)
                     /\ bk_pc' = "done"
                     /\ UNCHANGED <<bk_zip, bk_used_names, bk_errors>>
    /\ UNCHANGED bulkArgs
    /\ UNCHANGED <<parseVars, titleVars, transcriptVars, playlistVars, expandVars, normalizeVars>>

\* The expansion errors, the report and the 200 return.
BulkFinish ==
    /\ bk_pc = "report"
    /\ LET ExpandPrefix == <<"[","e","x","p","a","n","d","]"," ">>
           \* [f"[expand] {e}" for e in expansion_errors]
           Prefixed == [k \in 1..Len(bk_expansion_errors) |->
                           ExpandPrefix \o bk_expansion_errors[k]]
           errors == bk_errors \o Prefixed
           entries == IF errors # <<>>
                      THEN Append(bk_zip[1], Entry(ReportName, Join(<<"\n">>, errors)))
                      ELSE bk_zip[1]
       IN /\ bk_errors' = errors
          /\ bk_zip' = <<entries>>
          /\ bk_response' = Response(200, <<>>, <<>>, <<entries>>)
    /\ bk_pc' = "done"
    /\ UNCHANGED <<bulkArgs, bk_i, bk_used_names, bk_calls>>
    /\ UNCHANGED <<parseVars, titleVars, transcriptVars, playlistVars, expandVars, normalizeVars>>

NextBulk ==
    \/ BulkReject
    \/ BulkOpen
    \/ BulkVideo
    \/ BulkFinish

SpecBulk == InitBulk /\ [][NextBulk]_vars

-----------------------------------------------------------------------------
(* C10: the extraction rules of parse_video_id                             *)

\* The input without its leading and trailing white space.
Trimmed(s) ==
    LET keep == {i \in 1..Len(s) : s[i] \notin Whitespace} IN
    IF keep = {} THEN <<>>
    ELSE SubSeq(s, CHOOSE i \in keep : \A j \in keep : i <= j,
                   CHOOSE i \in keep : \A j \in keep : j <= i)

\* The text each of the first four rules looks for before the token.
RuleMarker ==
    <<  <<"v","=">>, <<"b","e","/">>, <<"e","m","b","e","d","/">>,
        <<"s","h","o","r","t","s","/">>  >>

\* The positions of s where an 11-character token starts.
TokenStarts(s) ==
    {i \in 1..Len(s) : /\ i + 10 <= Len(s)
                        /\ \A k \in i..(i + 10) : s[k] \in IdChars}

\* The positions of the tokens that rule r finds in s.
RuleTokens(r, s) ==
    IF r = 5
    THEN {i \in TokenStarts(s) : i = 1 /\ Len(s) = 11}
    ELSE LET mk == RuleMarker[r] IN
         {i \in TokenStarts(s) :
             /\ i > Len(mk)
             /\ SubSeq(s, i - Len(mk), i - 1) = mk}

\* What the five rules, tried in their order, make of the trimmed input.
ExpectedVideoId(s) ==
    LET hit == {r \in 1..5 : RuleTokens(r, s) # {}} IN
    IF hit = {} THEN PyNone
    ELSE LET r == CHOOSE x \in hit : \A y \in hit : x <= y
             i == CHOOSE x \in RuleTokens(r, s) : \A y \in RuleTokens(r, s) : x <= y
         IN SubSeq(s, i, i + 10)

\* C10: parse_video_id returns the 11-character token of the first of the
\* rules v=, be/, embed/, shorts/, whole string that matches the trimmed
\* input, and raises ValueError exactly when the input is no string, is
\* empty once trimmed, or matches no rule (the message then names the input).
C10_ParseRules ==
    pv_result # Pending =>
        IF ~isinstance_str(pv_url) \/ Trimmed(pv_url) = <<>>
        THEN pv_result = Raise("ValueError", MsgNonEmpty)
        ELSE IF ExpectedVideoId(Trimmed(pv_url)) = PyNone
        THEN pv_result = Raise("ValueError", MsgCouldNotExtract \o Trimmed(pv_url))
        ELSE pv_result = Return(ExpectedVideoId(Trimmed(pv_url)))

\* A short-link token is followed by a v= token: rule v= decides.
C10_Witness ==
    /\ pv_url = <<"b","e","/">> \o TokA \o <<"v","=">> \o TokB
    /\ pv_result = Return(TokB)

-----------------------------------------------------------------------------
(* C8: fetch_video_title                                                   *)

\* The non-empty title a JSON value holds, PyNone when it holds none.
NonEmptyTitle(j) ==
    IF j.t = "str" /\ Trimmed(j.s) # <<>> THEN Trimmed(j.s) ELSE PyNone

\* The title the credentialed videos lookup yields.
CredentialedTitle(env, resp) ==
    IF /\ HasKeyConfigured(env)
       /\ resp.net = "ok" /\ resp.status = 200
       /\ resp.body.t = "dict" /\ HasKey(resp.body, "items")
       /\ Lookup(resp.body, "items").t = "list"
       /\ Lookup(resp.body, "items").l # <<>>
       /\ Lookup(resp.body, "items").l[1].t = "dict"
       /\ HasKey(Lookup(resp.body, "items").l[1], "snippet")
       /\ Lookup(Lookup(resp.body, "items").l[1], "snippet").t = "dict"
       /\ HasKey(Lookup(Lookup(resp.body, "items").l[1], "snippet"), "title")
    THEN NonEmptyTitle(Lookup(Lookup(Lookup(resp.body, "items").l[1], "snippet"), "title"))
    ELSE PyNone

\* The title the public oEmbed lookup yields.
PublicTitle(resp) ==
    IF /\ resp.net = "ok" /\ resp.status = 200
       /\ resp.body.t = "dict" /\ HasKey(resp.body, "title")
    THEN NonEmptyTitle(Lookup(resp.body, "title"))
    ELSE PyNone

\* C8: fetch_video_title never raises, whatever the two providers answer;
\* it returns the credentialed lookup's non-empty title when a credential
\* is configured and there is one, otherwise the oEmbed lookup's title, and
\* None exactly when neither lookup yields a non-empty title.
C8_TitleNeverRaises ==
    ft_result # Pending =>
        /\ ft_result.kind = "return"
        /\ ft_result.val =
             IF CredentialedTitle(ft_env, ft_api) # PyNone
             THEN CredentialedTitle(ft_env, ft_api)
             ELSE PublicTitle(ft_oembed)

\* The part of C8 that the code keeps: a call that returns a title returns
\* one of the two lookups' titles, the credentialed one whenever it exists.
C8_ReturnedTitle ==
    (ft_result # Pending /\ ft_result.kind = "return") =>
        /\ ft_result.val \in
             {PyNone, CredentialedTitle(ft_env, ft_api), PublicTitle(ft_oembed)}
        /\ CredentialedTitle(ft_env, ft_api) # PyNone
             => ft_result.val = CredentialedTitle(ft_env, ft_api)

\* The oEmbed answer holds a title that is a number: .strip() raises.
C8_RaisesOnMalformedOembed ==
    /\ ft_oembed = HttpOk(200, JDict(<< <<"title", JNum(7)>> >>))
    /\ ft_result = Raise("AttributeError", NoAttribute(JNum(7), <<"s","t","r","i","p">>))

\* The credentialed lookup holds an empty title: None is returned although
\* the oEmbed lookup has a title.
C8_NoneDespiteOembed ==
    /\ HasKeyConfigured(ft_env)
    /\ ft_api = HttpOk(200, VideosBody(JStr(<<>>)))
    /\ PublicTitle(ft_oembed) # PyNone
    /\ ft_result = Return(PyNone)

-----------------------------------------------------------------------------
(* C9: the language fallback of fetch_transcript                           *)

\* A language was requested and the direct fetch in it failed.
DirectFetchFailed ==
    /\ tr_language # PyNone /\ tr_language # <<>>
    /\ Catches("CouldNotRetrieveTranscript", tr_provider.direct)

\* The track the fallback is to use: the first manually-created track in
\* the requested language, else the first track of the listing.
PreferredTrack(tracks, lang) ==
    LET manual == {i \in 1..Len(tracks) :
                      ~tracks[i].is_generated /\ tracks[i].language_code = lang}
    IN IF manual # {}
       THEN tracks[CHOOSE i \in manual : \A j \in manual : i <= j]
       ELSE tracks[1]

C9_WitnessOwnLanguage ==
    /\ DirectFetchFailed
    /\ tr_language = LangDe
    /\ tr_provider.listing.kind = "return"
    /\ Len(tr_provider.listing.val) >= 1
    /\ tr_provider.listing.val[1].language_code = LangEn
    /\ tr_provider.listing.val[1].translated.kind = "raise"
    /\ \A i \in 1..Len(tr_provider.listing.val) :
          tr_provider.listing.val[i].language_code = LangEn
    /\ tr_result.kind = "return"
    /\ tr_result.val[2] = LangEn

-----------------------------------------------------------------------------
(* C6: the limit of expand_playlist_video_ids                              *)

\* The video ids of the items of one served response, in order.
RECURSIVE ItemIds(_)
ItemIds(items) ==
    IF items = <<>> THEN <<>>
    ELSE (IF Truthy(VideoIdOf(Head(items))) THEN <<VideoIdOf(Head(items)).s>> ELSE <<>>)
         \o ItemIds(Tail(items))

ResponseIds(resp) ==
    IF resp.net = "ok" /\ resp.status = 200 /\ HasKey(resp.body, "items")
    THEN ItemIds(Lookup(resp.body, "items").l)
    ELSE <<>>

\* The video ids of the playlist as served so far, in page order.
RECURSIVE ServedIds(_)
ServedIds(served) ==
    IF served = <<>> THEN <<>>
    ELSE ResponseIds(Head(served)) \o ServedIds(Tail(served))

IsPrefix(a, b) == Len(a) <= Len(b) /\ a = SubSeq(b, 1, Len(a))

\* C6: whatever integer the limit is, expand_playlist_video_ids returns at
\* most limit video ids, and they are the first ones of the playlist in
\* page order.
C6_AtMostLimit ==
    pl_pc = "done" =>
        /\ Len(pl_results) <= pl_limit
        /\ IsPrefix(pl_results, ServedIds(pl_served))

\* What the code keeps: with a limit of at least 1 the bound holds, and
\* with any limit the result is a prefix of the playlist of at most
\* max(limit, 1) ids.
C6_PositiveLimit ==
    pl_pc = "done" =>
        /\ pl_limit >= 1 => Len(pl_results) <= pl_limit
        /\ Len(pl_results) <= (IF pl_limit >= 1 THEN pl_limit ELSE 1)
        /\ IsPrefix(pl_results, ServedIds(pl_served))

\* A limit of 0 and one id returned.
C6_OverLimit ==
    /\ pl_pc = "done"
    /\ pl_limit = 0
    /\ Len(pl_results) = 1

-----------------------------------------------------------------------------
(* C1: the merge of the three sources                                      *)

\* What parse_video_id does with each entry of the pool.
EntryId == [u \in UrlPool |-> parse_video_id(u)]

\* The ids the entries of urls parse to, in input order.
RECURSIVE UrlIds(_)
UrlIds(urls) ==
    IF urls = <<>> THEN <<>>
    ELSE LET vid == EntryId[Head(urls)] IN
         IF vid.kind = "return" THEN <<vid.val>> \o UrlIds(Tail(urls))
         ELSE UrlIds(Tail(urls))

\* s without the elements that occur earlier in s.
FirstSeen(s) ==
    LET keep == {i \in 1..Len(s) : \A j \in 1..(i - 1) : s[j] # s[i]}
        RECURSIVE Pick(_)
        Pick(i) == IF i > Len(s) THEN <<>>
                   ELSE IF i \in keep THEN <<s[i]>> \o Pick(i + 1)
                   ELSE Pick(i + 1)
    IN Pick(1)

AllSources == UrlIds(ex_urls) \o ex_playlist_vids \o ex_channel_vids

\* C1: when expand_inputs_to_video_ids returns, the returned list holds no
\* id twice and is the ids of urls (input order), then the ids the playlist
\* expansion returned, then the ids the channel expansion returned, each id
\* kept at its first occurrence only.
C1_MergedInFirstSeenOrder ==
    ex_pc = "done" =>
        /\ \A i, j \in 1..Len(ex_out) : ex_out[i] = ex_out[j] => i = j
        /\ ex_out = FirstSeen(AllSources)

\* A return where urls named one video twice, and the playlist and the
\* channel each returned videos, some of them already seen.
C1_Witness ==
    /\ ex_pc = "done"
    /\ Len(UrlIds(ex_urls)) = 2
    /\ UrlIds(ex_urls)[1] = UrlIds(ex_urls)[2]
    /\ ex_urls[1] # ex_urls[2]
    /\ ex_playlist_vids # <<>>
    /\ ex_channel_vids # <<>>
    /\ Len(ex_out) > 1
    /\ Len(ex_out) < Len(ex_playlist_vids) + Len(ex_channel_vids)

-----------------------------------------------------------------------------
(* C7: the entries of urls                                                 *)

\* The entries of the pool that no video id parses from and that hold a
\* playlist id, a channel id or a channel handle.
ShapedEntries ==
    {u \in UrlPool : /\ EntryId[u].kind = "raise"
                     /\ \/ parse_playlist_id(u) # PyNone
                        \/ parse_channel_id(u) # PyNone
                        \/ parse_channel_handle(u) # PyNone}

IsVideoEntry(u) == EntryId[u].kind = "return"

IsShapedEntry(u) == u \in ShapedEntries

\* The errors of the entries that are neither a video nor playlist- or
\* channel-shaped, in input order.
RECURSIVE UrlErrors(_)
UrlErrors(urls) ==
    IF urls = <<>> THEN <<>>
    ELSE LET u == Head(urls) IN
         IF IsVideoEntry(u) \/ IsShapedEntry(u) THEN UrlErrors(Tail(urls))
         ELSE <<MsgUnrecognized \o format(u)>> \o UrlErrors(Tail(urls))

\* C7: after the loop over urls, the ids are those of the entries a video id
\* parses from, in input order (a repeated id once), and the errors are one
\* 'Unrecognized URL' message naming the entry for each entry that is neither
\* a video nor playlist- or channel-shaped, in input order; the other entries
\* of the list change neither.
C7_UrlOutcomes ==
    ex_pc = "playlist" =>
        /\ ex_out = FirstSeen(UrlIds(ex_urls))
        /\ ex_errors = UrlErrors(ex_urls)

\* An unrecognized entry followed by a video entry: one error, one id.
C7_Witness ==
    /\ ex_pc = "playlist"
    /\ Len(ex_urls) = 2
    /\ ~IsVideoEntry(ex_urls[1]) /\ ~IsShapedEntry(ex_urls[1])
    /\ IsVideoEntry(ex_urls[2])
    /\ Len(ex_out) = 1
    /\ Len(ex_errors) = 1

\* A channel-shaped entry followed by a playlist-shaped one: nothing recorded.
C7_WitnessShaped ==
    /\ ex_pc = "playlist"
    /\ Len(ex_urls) = 2
    /\ IsShapedEntry(ex_urls[1]) /\ IsShapedEntry(ex_urls[2])
    /\ ex_urls[1] # ex_urls[2]
    /\ ex_out = <<>>
    /\ ex_errors = <<>>

-----------------------------------------------------------------------------
(* C2: a failing video does not end the batch                              *)

StartsWith(s, prefix) ==
    Len(s) >= Len(prefix) /\ SubSeq(s, 1, Len(prefix)) = prefix

EndsWith(s, suffix) ==
    Len(s) >= Len(suffix) /\ SubSeq(s, Len(s) - Len(suffix) + 1, Len(s)) = suffix

\* The videos fetch_transcript was called for, in call order.
RECURSIVE TranscriptCalls(_)
TranscriptCalls(calls) ==
    IF calls = <<>> THEN <<>>
    ELSE IF Head(calls)[1] = "fetch_transcript"
    THEN <<Head(calls)[2]>> \o TranscriptCalls(Tail(calls))
    ELSE TranscriptCalls(Tail(calls))

\* line is the error line of the i-th video.
IsLineOf(line, i) == StartsWith(line, bk_video_ids[i] \o <<":", " ">>)

\* The first n lines are the error lines of distinct videos among the first
\* m, in processing order.
PerVideoLines(lines, n, m) ==
    /\ \A k \in 1..n : \E i \in 1..m : IsLineOf(lines[k], i)
    /\ \A k, l \in 1..n :
          k < l => \E i, j \in 1..m :
                      i < j /\ IsLineOf(lines[k], i) /\ IsLineOf(lines[l], j)

\* C2: during and after the loop over the ids expand returned, the videos
\* processed so far are the first ids of that list, each fetched once and in
\* order; the '<name>.txt' entries and the '<identifier>: <message>' error
\* lines together number the videos processed, the lines being those of
\* distinct videos in processing order; the loop ends only after the last
\* id, and a request with ids always ends in the 200 archive.
C2_EveryVideoAccounted ==
    /\ bk_pc \in {"loop", "report"} =>
          /\ TranscriptCalls(bk_calls) = SubSeq(bk_video_ids, 1, bk_i)
          /\ Len(bk_zip[1]) + Len(bk_errors) = bk_i
          /\ \A k \in 1..Len(bk_zip[1]) :
                EndsWith(bk_zip[1][k].name, <<".","t","x","t">>)
          /\ PerVideoLines(bk_errors, Len(bk_errors), bk_i)
    /\ bk_pc = "report" => bk_i = Len(bk_video_ids)
    /\ bk_pc = "done" /\ bk_video_ids # <<>> =>
          /\ bk_response.status = 200
          /\ TranscriptCalls(bk_calls) = bk_video_ids

\* The end of a loop over three videos: the first lost its connection, the
\* second was written, the third had a title that is no string.
C2_Witness ==
    /\ bk_pc = "report"
    /\ Len(bk_video_ids) = 3
    /\ Len(bk_zip[1]) = 1
    /\ bk_errors = << bk_video_ids[1] \o <<":", " ">> \o ConnectionReset,
                      bk_video_ids[3] \o <<":", " ">>
                          \o NoAttribute(JNum(7), <<"s","t","r","i","p">>) >>

-----------------------------------------------------------------------------
(* C3: the names of the video entries                                      *)

\* C3: after the loop, no two video entries of the archive have the same
\* filename.
C3_DistinctNames ==
    bk_pc = "report" =>
        \A i, j \in 1..Len(bk_zip[1]) :
            bk_zip[1][i].name = bk_zip[1][j].name => i = j

\* The three titles "Intro" of one archive get three names.
C3_ThreeIntros ==
    /\ bk_pc = "report"
    /\ Len(bk_zip[1]) = 3
    /\ bk_zip[1][1].name = TitleIntro \o <<".","t","x","t">>
    /\ bk_zip[1][2].name = TitleIntro2 \o <<".","t","x","t">>
    /\ bk_zip[1][3].name = TitleIntro \o <<" ","(","3",")",".","t","x","t">>

-----------------------------------------------------------------------------
(* C4: the error report                                                    *)

HasReport(entries) == \E k \in 1..Len(entries) : entries[k].name = ReportName

\* The lines are per-video lines followed by the expansion errors, each
\* prefixed, in their order.
ReportLines(lines) ==
    LET n == Len(lines) - Len(bk_expansion_errors) IN
    /\ n >= 0
    /\ PerVideoLines(lines, n, Len(bk_video_ids))
    /\ \A k \in 1..Len(bk_expansion_errors) :
          lines[n + k] = <<"[","e","x","p","a","n","d","]"," ">>
                         \o bk_expansion_errors[k]

\* The report is the last entry and holds the lines joined by newlines.
ReportIsLast(entries) ==
    /\ entries # <<>>
    /\ entries[Len(entries)].name = ReportName
    /\ entries[Len(entries)].data = Join(<<"\n">>, bk_errors)
    /\ ReportLines(bk_errors)

\* C4: the finished archive has an entry named errors_report.txt if and only
\* if an error was recorded; the entry is the last one and holds the
\* per-video lines in processing order, then the expansion errors in their
\* order, each prefixed '[expand] ', joined by newlines.
C4_ReportIffErrors ==
    bk_pc = "done" /\ bk_response.status = 200 =>
        /\ HasReport(bk_response.zip[1]) <=> bk_errors # <<>>
        /\ bk_errors # <<>> => ReportIsLast(bk_response.zip[1])

\* The direction of C4 that the handler keeps: recorded errors are written
\* as the last entry, errors_report.txt, with that content.
C4_ErrorsAreReported ==
    bk_pc = "done" /\ bk_response.status = 200 /\ bk_errors # <<>> =>
        ReportIsLast(bk_response.zip[1])

\* A finished archive without any error and with an errors_report.txt.
C4_ReportWithoutErrors ==
    /\ bk_pc = "done"
    /\ bk_response.status = 200
    /\ bk_errors = <<>>
    /\ HasReport(bk_response.zip[1])

-----------------------------------------------------------------------------
(* C5: the 400 response                                                    *)

\* C5: the endpoint answers 400 exactly when expand returned no id; then no
\* transcript and no title was fetched, no archive was created, and the body
\* lists expand's errors as expand returned them; with at least one id the
\* answer is the 200 archive.
C5_BadRequestIffNoVideos ==
    /\ bk_video_ids = <<>> => bk_calls = <<>> /\ bk_zip = <<>>
    /\ bk_pc = "done" =>
          /\ bk_response.status = 400 <=> bk_video_ids = <<>>
          /\ bk_response.status = 400 =>
                /\ bk_response.expansion_errors = bk_expansion_errors
                /\ bk_response.detail = MsgNoVideos
                /\ bk_response.zip = <<>>
          /\ bk_video_ids # <<>> =>
                bk_response.status = 200 /\ bk_response.zip = bk_zip

\* A 400 answer that lists two expansion errors.
C5_Witness ==
    /\ bk_pc = "done"
    /\ bk_response.status = 400
    /\ Len(bk_response.expansion_errors) = 2

\* A 200 answer for three videos that all failed: only the report.
C5_WitnessAllFailed ==
    /\ bk_pc = "done"
    /\ bk_response.status = 200
    /\ Len(bk_video_ids) = 3
    /\ Len(bk_response.zip[1]) = 1
    /\ bk_response.zip[1][1].name = ReportName

-----------------------------------------------------------------------------
(* C11: the text normalize_transcript returns                              *)

\* The text of a segment without its surrounding white space, an absent or
\* null text counting as empty.
TrimmedText(seg) == IF seg.text = PyNone THEN <<>> ELSE Trimmed(seg.text)

\* The decimal digits of n >= 0, at least two of them.
TwoDigits(n) ==
    LET width == IF n < 100 THEN 2 ELSE IF n < 1000 THEN 3 ELSE 4
        Power(k) == IF k = 0 THEN 1 ELSE IF k = 1 THEN 10 ELSE IF k = 2 THEN 100 ELSE 1000
        Digit(d) == <<"0","1","2","3","4","5","6","7","8","9">>[d + 1]
    IN [i \in 1..width |-> Digit((n \div Power(width - i)) % 10)]

\* The whole seconds of the start of a segment, 0 without a start.
WholeSeconds(seg) == IF seg.start = <<>> THEN 0 ELSE seg.start[1] \div MsPerSecond

\* '[MM:SS] ' for a segment.
Stamp(seg) ==
    <<"[">> \o TwoDigits(WholeSeconds(seg) \div 60) \o <<":">>
    \o TwoDigits(WholeSeconds(seg) % 60) \o <<"]", " ">>

\* The line each kept segment gives, in input order.
KeptLines(segments, include_timestamps) ==
    LET kept == SelectSeq(segments, LAMBDA seg : TrimmedText(seg) # <<>>)
    IN [i \in 1..Len(kept) |->
            IF include_timestamps THEN Stamp(kept[i]) \o TrimmedText(kept[i])
            ELSE TrimmedText(kept[i])]

\* The lines with one newline between each two of them.
RECURSIVE NewlineSeparated(_)
NewlineSeparated(lines) ==
    IF lines = <<>> THEN <<>>
    ELSE IF Len(lines) = 1 THEN lines[1]
    ELSE NewlineSeparated(SubSeq(lines, 1, Len(lines) - 1)) \o <<"\n">> \o lines[Len(lines)]

\* C11: normalize_transcript returns the trimmed texts of exactly the
\* segments whose trimmed text is not empty, in input order, joined by single
\* newlines with no trailing newline; with timestamps each kept line starts
\* with '[MM:SS] ', MM the start in seconds floor-divided by 60, padded to two
\* digits and not wrapped at 60 minutes, SS the whole-second remainder in
\* 0..59, an absent or null start counting as 0.
C11_NormalizedText ==
    nt_result # Pending =>
        /\ nt_result = Return(NewlineSeparated(KeptLines(nt_segments, nt_timestamps)))
        /\ nt_result.val = <<>> \/ nt_result.val[Len(nt_result.val)] # "\n"

\* Two kept lines with timestamps: one without a start, one past 100 minutes.
C11_Witness ==
    /\ nt_timestamps
    /\ nt_segments = <<Segment(<<" ", "a", " ">>, <<>>), Segment(<<"c", " ", "d">>, <<6005250>>)>>
    /\ nt_result = Return(<<"[","0","0",":","0","0","]"," ","a","\n",
                            "[","1","0","0",":","0","5","]"," ","c"," ","d">>)

\* Without timestamps, a blank segment between nothing and a kept one.
C11_WitnessDropped ==
    /\ ~nt_timestamps
    /\ Len(nt_segments) = 2
    /\ TrimmedText(nt_segments[1]) = <<>>
    /\ nt_result = Return(<<"b">>)

-----------------------------------------------------------------------------
(* C12: the end of the paging of expand_playlist_video_ids                 *)

\* The last response served was no page: the request failed or was refused.
LastRequestFailed ==
    /\ pl_served # <<>>
    /\ ~Truthy(_yt_api_get(pl_env, pl_served[Len(pl_served)]))

\* The page at hand names no next page.
PagesExhausted == ~Truthy(GetOr(pl_data, "nextPageToken", JNull))

\* C12: the paging loop of expand_playlist_video_ids always terminates, for
\* every limit and every sequence of provider responses.
C12_PagingTerminates == <>(pl_pc = "done")

\* What the code keeps: a failed request ends the paging with the ids
\* collected before it and is not repeated.
C12_FailedPageIsFinal ==
    /\ [](pl_pc = "done" /\ Len(pl_served) = 1 /\ LastRequestFailed => pl_results = <<>>)
    /\ [][pl_pc = "loop" /\ LastRequestFailed =>
            pl_pc' = "done" /\ pl_served' = pl_served /\ pl_results' = pl_results]_vars

\* What the code keeps: a further page is requested only while fewer than
\* limit ids are collected and the page at hand names a next page, and
\* none after the return.
C12_NoPageAfterLimit ==
    [][/\ pl_pc = "loop" /\ pl_served' # pl_served =>
            Len(pl_results') < pl_limit /\ ~PagesExhausted
       /\ pl_pc = "done" => pl_served' = pl_served]_vars

\* What the code keeps: the call returns if the provider again and again
\* serves a page that names no next page or fails.
C12_TerminatesWhenPagesEnd ==
    []<>(pl_pc = "loop" => PagesExhausted) => <>(pl_pc = "done")

\* The provider has served MaxRequests pages and the call is still paging.
C12_StillPaging ==
    /\ pl_pc = "loop"
    /\ Len(pl_served) = MaxRequests
    /\ pl_results = <<>>
    /\ ~PagesExhausted

====
